---- MODULE Spec2Model ----
(***************************************************************************)
(* State-machine model of the example application's two zustand stores:    *)
(* the shopping-cart store (useCartStore) and the authentication store     *)
(* (useAuthStore).  Every store action is one atomic step: zustand's set() *)
(* applies the updater synchronously and merges the returned partial state *)
(* into the store.                                                         *)
(***************************************************************************)
EXTENDS Integers, Sequences, FiniteSets, TLC

(***************************************************************************)
(* Bounds of the model.                                                    *)
(***************************************************************************)
\* product ids are the strings "1" .. "MaxProductId", written as integers
MaxProductId == 2
\* largest quantity a line item takes in the model
MaxQuantity == 2
\* number of calls of crypto.randomUUID() a behaviour may make
MaxUuid == 3
\* user field values and tokens are drawn from 1 .. MaxValue
MaxValue == 2
\* number of notifications a behaviour may add
MaxNotifications == 2
\* depth of mutations issued from inside a subscriber's notification
MaxNested == 1
\* number of requests one useFetch instance may start
MaxFetches == 3
\* the longest delay passed to useDebounce, in units of time
MaxDelay == 2
\* number of times the arguments of useDebounce may change
\* the users the service holds at most
MaxUsers == 12

\* the page the Next button is followed to at most
MaxPage == 3

MaxChanges == 3

ProductIds == 1..MaxProductId
\* Product (types): the fields the cart store reads are id and price; the
\* catalogue holds one product per id, priced 10, 20, ...
Products == {[id |-> p, price |-> 10 * p] : p \in ProductIds}
\* quantities passed to updateQuantity: negative, zero and positive
Quantities == (-1)..MaxQuantity

VARIABLES
    items,        \* CartState.items : CartItem[]
    isOpen,       \* CartState.isOpen
    uuidCount,    \* number of ids crypto.randomUUID() has handed out
    cartOp,       \* history: the last cart action, its arguments, and what it found
    addCalls,     \* history: per product id, addItem calls since it last had no line item
                  \* (counted while onlyAdds holds, 0 otherwise)
    onlyAdds      \* history: per product id, whether only addItem touched it since then

cartVars == <<items, isOpen, uuidCount, cartOp, addCalls, onlyAdds>>

VARIABLES
    user,             \* AuthState.user : User | null
    token,            \* AuthState.token : string | null
    isAuthenticated,  \* AuthState.isAuthenticated
    authOp,           \* history: the last auth action, the one before it, what it found
    authStorage       \* localStorage's entry under 'auth-storage' (null: no entry)

authVars == <<user, token, isAuthenticated, authOp, authStorage>>

\* the JavaScript value null
null == [null |-> TRUE]

\* User (types): the fields the model keeps; their values are 1 .. MaxValue
UserFields == {"id", "name", "email"}
Users == [UserFields -> 1..MaxValue]
\* Partial<User>: any subset of the fields, each with a value
Updates == UNION {[fields -> 1..MaxValue] : fields \in SUBSET UserFields}
\* token strings, tagged so that they compare with null
Tokens == {[jwt |-> n] : n \in 1..MaxValue}

VARIABLES
    apiConfig,     \* APIClientConfig: which of getToken / onUnauthorized are given
    currentToken,  \* what getToken() returns when called now
    request        \* the latest call of request(): where it stands and what it did

apiVars == <<apiConfig, currentToken, request>>

VARIABLES
    notifications,    \* NotificationState.notifications
    timers,           \* ids whose setTimeout callback has not run yet
    notificationCount,\* number of ids crypto.randomUUID() has handed out here
    defaultDuration,  \* NotificationProvider's defaultDuration prop
    notificationOp    \* history: the last action on the queue and what it found

notificationVars ==
    <<notifications, timers, notificationCount, defaultDuration, notificationOp>>

VARIABLES
    callStack,  \* the store mutations that are running, the innermost last: each
                \* with its store, the set calls it has yet to make and the
                \* listener its current set call notifies next
    whole       \* history: both stores' state after all the mutations called so far

subscriberVars == <<callStack, whole>>

VARIABLES
    options,   \* useFetch's options.immediate: "true", "false" or "undefined"
    strict,    \* whether the component is rendered under StrictMode
    phase,     \* the component: "rendered" (effects not yet run), "mounted", "unmounted"
    hook,      \* one useFetch instance: its state cells, refs and requests
    fetchOp    \* history: the last step of the instance and what it did

fetchVars == <<options, strict, phase, hook, fetchOp>>

VARIABLES
    inputValue,      \* useDebounce's argument value, as last rendered
    delay,           \* useDebounce's argument delay, as last rendered
    debouncedValue,  \* useDebounce's state cell, the value it returns
    debounceTimers,  \* the pending setTimeout calls: time left and the value captured
    debouncePhase,   \* the component: "rendered" (effect not yet run), "mounted", "unmounted"
    sinceChange,     \* history: time since the input last changed (counted up to MaxDelay)
    changes,         \* history: number of changes of value and delay so far
    debounceOp       \* history: the last step and whether it changed debouncedValue

debounceVars ==
    <<inputValue, delay, debouncedValue, debounceTimers, debouncePhase, sinceChange, changes,
      debounceOp>>

VARIABLES
    initialValue,      \* useLocalStorage's argument initialValue
    storedValue,       \* useLocalStorage's state cell, the value it returns
    localStorageItem,  \* localStorage's entry under key (null: no entry)
    syncPending,       \* whether the effect [key, storedValue] has yet to run
    storageOp          \* history: the last step, and for an effect the step that caused it

localStorageVars == <<initialValue, storedValue, localStorageItem, syncPending, storageOp>>

VARIABLES
    defaultTheme,  \* ThemeProvider's defaultTheme prop
    theme,         \* ThemeProvider's state cell theme, as last rendered
    systemTheme,   \* ThemeProvider's state cell systemTheme, as last rendered
    themeUpdate,   \* the setThemeState call that has yet to be rendered (NoTheme: none)
    themeStorage,  \* localStorage's entry under storageKey (NoTheme: no entry)
    themeOp        \* history: the last call on the provider, the resolvedTheme it
                   \* saw, whether any call was made, whether it has been rendered

themeVars == <<defaultTheme, theme, systemTheme, themeUpdate, themeStorage, themeOp>>

VARIABLES
    session  \* history of the default apiClient: whether a 401 has removed the
             \* snapshot since the last login, and the Authorization header of
             \* the latest request built since then

sessionVars == <<session>>

VARIABLES
    page,               \* UserList: useState(1)
    search,             \* useState('')
    debouncedSearch,    \* useDebounce(search, 300)
    usersData,          \* the query's data: null, or the pagination of the
                        \* response it shows (kept over a change of the key)
    queryStatus,        \* the query of the current key: "fetching", "success"
                        \* or "error"
    selectedUser,       \* the user the delete modal is about, or null
    isDeleteModalOpen,  \* useToggle(false)
    deletePending,      \* the user deleteMutation is deleting, or null
    server              \* the users the service holds: how many match the
                        \* search text, and how many do not

userListVars ==
    <<page, search, debouncedSearch, usersData, queryStatus, selectedUser,
      isDeleteModalOpen, deletePending, server>>

\* the parts of the application that are hooks of a component, and the
\* history of the session
hookVars ==
    <<fetchVars, debounceVars, localStorageVars, themeVars, sessionVars, userListVars>>

\* the variables each part of the application leaves alone
notCart == <<authVars, apiVars, notificationVars, subscriberVars, hookVars>>
notAuth == <<cartVars, apiVars, notificationVars, subscriberVars, hookVars>>
notApi == <<cartVars, authVars, notificationVars, subscriberVars, hookVars>>
notNotifications == <<cartVars, authVars, apiVars, subscriberVars, hookVars>>
\* what a store mutation with subscribers leaves alone
notSubscribers ==
    <<cartOp, addCalls, onlyAdds, authOp, apiVars, notificationVars, hookVars>>
notStores == <<apiVars, notificationVars, subscriberVars, sessionVars, userListVars>>
\* what the auth store and the default apiClient together leave alone
notSession ==
    <<cartVars, notificationVars, subscriberVars, fetchVars, debounceVars,
      localStorageVars, themeVars, userListVars>>
notUserList ==
    <<cartVars, authVars, apiVars, notificationVars, subscriberVars, fetchVars,
      debounceVars, localStorageVars, themeVars, sessionVars>>
notFetch == <<cartVars, authVars, notStores, debounceVars, localStorageVars, themeVars>>
notDebounce == <<cartVars, authVars, notStores, fetchVars, localStorageVars, themeVars>>
notLocalStorage == <<cartVars, authVars, notStores, fetchVars, debounceVars, themeVars>>
notTheme == <<cartVars, authVars, notStores, fetchVars, debounceVars, localStorageVars>>

(***************************************************************************)
(* Array helpers, as Array.prototype computes them.                        *)
(***************************************************************************)
\* Array.prototype.filter with the predicate (i) => i.product.id !== productId
RECURSIVE FilterOutProduct(_, _)
FilterOutProduct(arr, productId) ==
    IF arr = << >> THEN << >>
    ELSE IF Head(arr).product.id # productId
         THEN <<Head(arr)>> \o FilterOutProduct(Tail(arr), productId)
         ELSE FilterOutProduct(Tail(arr), productId)

\* Array.prototype.find with the predicate (i) => i.product.id === productId:
\* whether an element is found (the store only tests the result for truthiness)
HasProduct(arr, productId) ==
    \E k \in 1..Len(arr) : arr[k].product.id = productId

\* index of the element find() returns: the first match
FindIndex(arr, productId) ==
    CHOOSE k \in 1..Len(arr) :
        /\ arr[k].product.id = productId
        /\ \A j \in 1..(k - 1) : arr[j].product.id # productId

\* Array.prototype.reduce((sum, item) => sum + f(item), 0), left to right
RECURSIVE ReduceQuantity(_, _)
ReduceQuantity(arr, sum) ==
    IF arr = << >> THEN sum
    ELSE ReduceQuantity(Tail(arr), sum + Head(arr).quantity)

RECURSIVE ReducePrice(_, _)
ReducePrice(arr, sum) ==
    IF arr = << >> THEN sum
    ELSE ReducePrice(Tail(arr), sum + Head(arr).product.price * Head(arr).quantity)

(***************************************************************************)
(* Computed values of the cart store.                                      *)
(***************************************************************************)
getTotalItems == ReduceQuantity(items, 0)

\* mutant of getTotalPrice: the reducer forgets the quantity factor
RECURSIVE ReduceUnitPrice(_, _)
ReduceUnitPrice(arr, sum) ==
    IF arr = << >> THEN sum
    ELSE ReduceUnitPrice(Tail(arr), sum + Head(arr).product.price)

getTotalPriceIgnoresQuantity == ReduceUnitPrice(items, 0)

getTotalPrice == ReducePrice(items, 0)

getItemQuantity(productId) ==
    IF HasProduct(items, productId)
    THEN items[FindIndex(items, productId)].quantity
    ELSE 0

(***************************************************************************)
(* zustand's set(partial): the returned partial state is merged into the   *)
(* store's state, every other field is kept.                               *)
(***************************************************************************)
set(state, partial) ==
    [f \in DOMAIN state |-> IF f \in DOMAIN partial THEN partial[f] ELSE state[f]]

(***************************************************************************)
(* Updaters of the cart store: the partial state each action passes to     *)
(* set().                                                                  *)
(***************************************************************************)
\* mutant of addItemUpdater: the map forgets the product-id test and
\* increments every line item
addItemIncrementsAll(state, product, uuid) ==
    IF HasProduct(state.items, product.id)
    THEN [items |-> [k \in 1..Len(state.items) |->
                        [state.items[k] EXCEPT !.quantity = @ + 1]]]
    ELSE [items |-> state.items \o <<[id |-> uuid, product |-> product, quantity |-> 1]>>]

\* mutant of addItemUpdater: the lookup of an existing line item is missing
addItemAlwaysAppends(state, product, uuid) ==
    [items |-> state.items \o <<[id |-> uuid, product |-> product, quantity |-> 1]>>]

addItemUpdater(state, product, uuid) ==
    IF HasProduct(state.items, product.id)
    THEN [items |-> [k \in 1..Len(state.items) |->
                        IF state.items[k].product.id = product.id
                        THEN [state.items[k] EXCEPT !.quantity = @ + 1]
                        ELSE state.items[k]]]
    ELSE [items |-> state.items \o <<[id |-> uuid, product |-> product, quantity |-> 1]>>]

\* mutant of removeItemUpdater: takes one unit off the line item and deletes
\* it only when no unit is left
removeItemDecrements(state, productId) ==
    LET dec == [k \in 1..Len(state.items) |->
                    IF state.items[k].product.id = productId
                    THEN [state.items[k] EXCEPT !.quantity = @ - 1]
                    ELSE state.items[k]]
        Kept(i) == i.quantity > 0
    IN  [items |-> SelectSeq(dec, Kept)]

\* mutant of removeItemUpdater: the filter compares the line item's own id
\* (i.id) with the product id
removeItemByItemId(state, productId) ==
    LET Kept(i) == i.id # productId
    IN  [items |-> SelectSeq(state.items, Kept)]

removeItemUpdater(state, productId) ==
    [items |-> FilterOutProduct(state.items, productId)]

\* mutant of updateQuantityUpdater: the removal test is quantity < 0
updateQuantityNegativeOnly(state, productId, quantity) ==
    IF quantity < 0
    THEN [items |-> FilterOutProduct(state.items, productId)]
    ELSE [items |-> [k \in 1..Len(state.items) |->
                        IF state.items[k].product.id = productId
                        THEN [state.items[k] EXCEPT !.quantity = quantity]
                        ELSE state.items[k]]]

\* mutant of updateQuantityUpdater: the quantity is added to the old one
updateQuantityAdds(state, productId, quantity) ==
    IF quantity <= 0
    THEN [items |-> FilterOutProduct(state.items, productId)]
    ELSE [items |-> [k \in 1..Len(state.items) |->
                        IF state.items[k].product.id = productId
                        THEN [state.items[k] EXCEPT !.quantity = @ + quantity]
                        ELSE state.items[k]]]

updateQuantityUpdater(state, productId, quantity) ==
    IF quantity <= 0
    THEN [items |-> FilterOutProduct(state.items, productId)]
    ELSE [items |-> [k \in 1..Len(state.items) |->
                        IF state.items[k].product.id = productId
                        THEN [state.items[k] EXCEPT !.quantity = quantity]
                        ELSE state.items[k]]]

\* mutant of clearCartUpdater: closes the cart panel and keeps the items
clearCartClosesOnly == [isOpen |-> FALSE]

clearCartUpdater == [items |-> << >>]

toggleCartUpdater(state) == [isOpen |-> ~state.isOpen]

(***************************************************************************)
(* The cart store's actions as functions from state to state.              *)
(***************************************************************************)
addItem(state, product, uuid) == set(state, addItemUpdater(state, product, uuid))

removeItem(state, productId) == set(state, removeItemUpdater(state, productId))

updateQuantity(state, productId, quantity) ==
    set(state, updateQuantityUpdater(state, productId, quantity))

clearCart(state) == set(state, clearCartUpdater)

toggleCart(state) == set(state, toggleCartUpdater(state))

(***************************************************************************)
(* Cart store: initial state and actions.                                  *)
(***************************************************************************)
CartState == [items |-> items, isOpen |-> isOpen]

NoOp == [op |-> "none", productId |-> 0, quantity |-> 0, before |-> 0, size |-> 0,
         afterRemove |-> 0]

CartInit ==
    /\ items = << >>
    /\ isOpen = FALSE
    /\ uuidCount = 0
    /\ cartOp = NoOp
    /\ addCalls = [p \in ProductIds |-> 0]
    /\ onlyAdds = [p \in ProductIds |-> TRUE]

\* the store's state after the step
Becomes(state) ==
    /\ items' = state.items
    /\ isOpen' = state.isOpen

\* history bookkeeping shared by the cart actions: the action, its arguments,
\* the quantity the product id held before it (0: no line item), the number
\* of line items before it, and, for an addItem that directly follows a
\* removeItem of the same product id, the quantity that removeItem deleted
Remember(op, productId, quantity) ==
    cartOp' = [op |-> op, productId |-> productId, quantity |-> quantity,
               before |-> getItemQuantity(productId), size |-> Len(items),
               afterRemove |-> IF /\ op = "addItem"
                                  /\ cartOp.op = "removeItem"
                                  /\ cartOp.productId = productId
                               THEN cartOp.before ELSE 0]

\* the product id has no line item after the step: its add history restarts
Restart(productId) ==
    /\ addCalls' = [addCalls EXCEPT ![productId] = 0]
    /\ onlyAdds' = [onlyAdds EXCEPT ![productId] = TRUE]

AddItem(product) ==
    /\ UNCHANGED notCart
    /\ IF HasProduct(items, product.id)
       THEN /\ getItemQuantity(product.id) < MaxQuantity
            /\ uuidCount' = uuidCount
       ELSE /\ uuidCount < MaxUuid
            /\ uuidCount' = uuidCount + 1
    /\ Becomes(addItem(CartState, product, uuidCount + 1))
    /\ Remember("addItem", product.id, 0)
    /\ addCalls' = [addCalls EXCEPT ![product.id] = IF onlyAdds[product.id] THEN @ + 1 ELSE @]
    /\ onlyAdds' = onlyAdds

RemoveItem(productId) ==
    /\ UNCHANGED notCart
    /\ Becomes(removeItem(CartState, productId))
    /\ uuidCount' = uuidCount
    /\ Remember("removeItem", productId, 0)
    /\ Restart(productId)

UpdateQuantity(productId, quantity) ==
    /\ UNCHANGED notCart
    /\ Becomes(updateQuantity(CartState, productId, quantity))
    /\ uuidCount' = uuidCount
    /\ Remember("updateQuantity", productId, quantity)
    /\ IF HasProduct(items', productId)
       THEN /\ addCalls' = [addCalls EXCEPT ![productId] = 0]
            /\ onlyAdds' = [onlyAdds EXCEPT ![productId] = FALSE]
       ELSE Restart(productId)

ClearCart ==
    /\ UNCHANGED notCart
    /\ Becomes(clearCart(CartState))
    /\ uuidCount' = uuidCount
    /\ Remember("clearCart", 0, 0)
    /\ addCalls' = [p \in ProductIds |-> 0]
    /\ onlyAdds' = [p \in ProductIds |-> TRUE]

ToggleCart ==
    /\ UNCHANGED notCart
    /\ Becomes(toggleCart(CartState))
    /\ uuidCount' = uuidCount
    /\ Remember("toggleCart", 0, 0)
    /\ UNCHANGED <<addCalls, onlyAdds>>

vars == <<cartVars, authVars, apiVars, notificationVars, subscriberVars, hookVars>>

(***************************************************************************)
(* Updaters of the auth store: the partial state each action passes to     *)
(* set().                                                                  *)
(***************************************************************************)
\* object spread { ...a, ...b }: the fields of both, b's values winning
Spread(a, b) ==
    [f \in DOMAIN a \cup DOMAIN b |-> IF f \in DOMAIN b THEN b[f] ELSE a[f]]

\* mutant of loginUpdater: isAuthenticated is not set
loginWithoutFlag(u, t) == [user |-> u, token |-> t]

loginUpdater(u, t) == [user |-> u, token |-> t, isAuthenticated |-> TRUE]

\* mutant of logoutUpdater: the token is not cleared
logoutKeepsToken == [user |-> null, isAuthenticated |-> FALSE]

logoutUpdater == [user |-> null, token |-> null, isAuthenticated |-> FALSE]

\* mutant of updateUserUpdater: the updates replace the user record
updateUserReplaces(state, updates) ==
    [user |-> IF state.user # null THEN updates ELSE null]

updateUserUpdater(state, updates) ==
    [user |-> IF state.user # null THEN Spread(state.user, updates) ELSE null]

(***************************************************************************)
(* The auth store's actions as functions from state to state.              *)
(***************************************************************************)
login(state, u, t) == set(state, loginUpdater(u, t))

logout(state) == set(state, logoutUpdater)

updateUser(state, updates) == set(state, updateUserUpdater(state, updates))

(***************************************************************************)
(* The persist middleware as the auth store configures it: JSON storage on *)
(* localStorage under the key 'auth-storage', partialize choosing the      *)
(* persisted fields.                                                       *)
(***************************************************************************)
\* JSON.stringify / JSON.parse on the values the store holds (strings,
\* booleans, null and plain objects of them, which JSON keeps as they are):
\* the text is kept as the tree it denotes
JSONStringify(value) == [text |-> value]

JSONParse(string) == string.text

\* mutant of partialize: the token is left out of the snapshot
partializeOmitsToken(state) ==
    [user |-> state.user, isAuthenticated |-> state.isAuthenticated]

partialize(state) ==
    [user |-> state.user, token |-> state.token, isAuthenticated |-> state.isAuthenticated]

\* what persist writes with setItem after a change of the state
PersistedItem(state) == JSONStringify([state |-> partialize(state), version |-> 0])

InitialAuthState == [user |-> null, token |-> null, isAuthenticated |-> FALSE]

\* the state of a store created while localStorage holds `item`: the
\* persisted fields are merged over the initial state
Hydrate(item) ==
    IF item = null THEN InitialAuthState
    ELSE Spread(InitialAuthState, JSONParse(item).state)

(***************************************************************************)
(* Auth store: initial state and actions.                                  *)
(***************************************************************************)
AuthState == [user |-> user, token |-> token, isAuthenticated |-> isAuthenticated]

AuthInit ==
    /\ user = InitialAuthState.user
    /\ token = InitialAuthState.token
    /\ isAuthenticated = InitialAuthState.isAuthenticated
    /\ authOp = [op |-> "none", prior |-> "none", hadUser |-> FALSE, fields |-> {}]
    /\ authStorage = null

\* the store's state after the step
AuthBecomes(state) ==
    /\ user' = state.user
    /\ token' = state.token
    /\ isAuthenticated' = state.isAuthenticated

\* a mutation: the state after the step, mirrored to localStorage by persist
AuthMutates(state) ==
    /\ AuthBecomes(state)
    /\ authStorage' = PersistedItem(state)

\* history bookkeeping: the action, the action before it, whether a user
\* existed before it, and the fields an updateUser was given
AuthRemember(op, fields) ==
    authOp' = [op |-> op, prior |-> authOp.op, hadUser |-> user # null, fields |-> fields]

Login(u, t) ==
    /\ UNCHANGED notAuth
    /\ AuthMutates(login(AuthState, u, t))
    /\ AuthRemember("login", {})

Logout ==
    /\ UNCHANGED notAuth
    /\ AuthMutates(logout(AuthState))
    /\ AuthRemember("logout", {})

UpdateUser(updates) ==
    /\ UNCHANGED notAuth
    /\ AuthMutates(updateUser(AuthState, updates))
    /\ AuthRemember("updateUser", DOMAIN updates)

\* the default apiClient's onUnauthorized: the snapshot is removed from
\* localStorage, the store is not touched
OnUnauthorized ==
    /\ UNCHANGED notAuth
    /\ authStorage' = null
    /\ UNCHANGED <<user, token, isAuthenticated>>
    /\ AuthRemember("onUnauthorized", {})

\* the page is loaded again: a new store is created and persist hydrates it
\* from localStorage; depending on the version of the middleware the hydrated
\* state is written back or the entry is left as it is
Rehydrate ==
    /\ UNCHANGED notAuth
    /\ AuthBecomes(Hydrate(authStorage))
    /\ \/ authStorage' = authStorage
       \/ authStorage' = PersistedItem(Hydrate(authStorage))
    /\ AuthRemember("rehydrate", {})

(***************************************************************************)
(* The API client: createAPIClient(config).request(endpoint, options).     *)
(* One call of request() runs up to its first await (the fetch), then from *)
(* the response up to the next await (the body), then settles.             *)
(***************************************************************************)
\* the empty string as a token
EmptyToken == [jwt |-> 0]

\* what getToken may return: null, '' or a token
TokenValues == {null, EmptyToken} \cup Tokens

\* if (token): null, undefined and '' are falsy
Truthy(t) == t # null /\ t # EmptyToken

\* the header value `Bearer ${token}`
Bearer(t) == [bearer |-> t]

\* the Authorization header of options.headers: none, a Bearer header of the
\* caller's own, or another scheme
CallerAuthorizations == {null, Bearer([jwt |-> 1]), [basic |-> 1]}

\* getToken?.(): undefined (written null) when getToken is not configured
GetToken(config, tokenNow) == IF config.getToken THEN tokenNow ELSE null

\* mutant of BuildHeaders: the test is token !== null, so '' gives a header
BuildHeadersNonNull(callerAuthorization, t) ==
    [ContentType |-> "application/json",
     Authorization |-> IF t # null THEN Bearer(t) ELSE callerAuthorization]

\* new Headers(fetchOptions.headers), Content-Type set, Authorization set
\* when the token is truthy
BuildHeaders(callerAuthorization, t) ==
    [ContentType |-> "application/json",
     Authorization |-> IF Truthy(t) THEN Bearer(t) ELSE callerAuthorization]

\* response.ok: the status is in 200 .. 299
Ok(status) == status >= 200 /\ status <= 299

Statuses == {200, 204, 401, 500}
StatusTexts == {"", "text"}
\* a body response.json() rejects on
Unparseable == [unparseable |-> TRUE]
\* response bodies: not JSON, JSON null, a JSON object
Bodies == {Unparseable, JSONStringify(null), JSONStringify([message |-> 1])}
Responses == [status : Statuses, statusText : StatusTexts, body : Bodies]

\* mutant of CallsOnUnauthorized: every error response triggers the callback
CallsOnUnauthorizedOnAnyError(config, response) ==
    ~Ok(response.status) /\ config.onUnauthorized

\* response.status === 401 && onUnauthorized, inside if (!response.ok)
CallsOnUnauthorized(config, response) ==
    ~Ok(response.status) /\ response.status = 401 /\ config.onUnauthorized

\* class APIError
APIError(status, statusText, data) ==
    [name |-> "APIError", status |-> status, statusText |-> statusText, data |-> data]

\* try { errorData = await response.json() } catch { errorData = null }
ErrorData(response) ==
    IF response.body = Unparseable THEN null ELSE JSONParse(response.body)

\* mutant of ThrownError: the status text is left out
ThrownErrorWithoutText(response) ==
    APIError(response.status, "", ErrorData(response))

\* throw new APIError(response.status, response.statusText, errorData)
ThrownError(response) ==
    APIError(response.status, response.statusText, ErrorData(response))

NotCalled ==
    [pc |-> "idle", callerAuthorization |-> null, tokenAtBuild |-> null,
     headers |-> null, response |-> null, outcome |-> null,
     fetches |-> 0, onUnauthorizedCalls |-> 0]

ApiInit ==
    /\ apiConfig \in [getToken : BOOLEAN, onUnauthorized : BOOLEAN]
    /\ currentToken = null
    /\ request = NotCalled

\* the default apiClient, not used
ApiIdle ==
    /\ apiConfig = [getToken |-> TRUE, onUnauthorized |-> TRUE]
    /\ currentToken = null
    /\ request = NotCalled

\* the session changes: getToken returns another value from now on
TokenChanges(t) ==
    /\ UNCHANGED notApi
    /\ t # currentToken
    /\ currentToken' = t
    /\ UNCHANGED <<apiConfig, request>>

\* request() is called (the calls share no state, so the model follows one
\* call at a time): URL and headers are built, fetch is started
Request(callerAuthorization) ==
    /\ UNCHANGED notApi
    /\ request.pc \in {"idle", "resolved", "rejected"}
    /\ LET t == GetToken(apiConfig, currentToken)
       IN  request' = [NotCalled EXCEPT !.pc = "fetch",
                                        !.callerAuthorization = callerAuthorization,
                                        !.tokenAtBuild = t,
                                        !.headers = BuildHeaders(callerAuthorization, t),
                                        !.fetches = 1]
    /\ UNCHANGED <<apiConfig, currentToken>>

\* fetch rejects (network failure): request() rejects with fetch's error
FetchFails ==
    /\ UNCHANGED notApi
    /\ request.pc = "fetch"
    /\ request' = [request EXCEPT !.pc = "rejected", !.outcome = [name |-> "TypeError"]]
    /\ UNCHANGED <<apiConfig, currentToken>>

\* fetch resolves with a response: the error branch calls onUnauthorized and
\* awaits the body; 204 resolves with undefined; otherwise the body is awaited
Responds(response) ==
    /\ UNCHANGED notApi
    /\ request.pc = "fetch"
    /\ request' = [request EXCEPT
           !.response = response,
           !.pc = IF ~Ok(response.status) THEN "errorBody"
                  ELSE IF response.status = 204 THEN "resolved"
                  ELSE "body",
           !.outcome = IF Ok(response.status) /\ response.status = 204
                       THEN [value |-> "undefined"] ELSE null,
           !.onUnauthorizedCalls =
               IF CallsOnUnauthorized(apiConfig, response) THEN @ + 1 ELSE @]
    /\ UNCHANGED <<apiConfig, currentToken>>

\* the error body has been read (or has failed to parse): APIError is thrown
ErrorBodyRead ==
    /\ UNCHANGED notApi
    /\ request.pc = "errorBody"
    /\ request' = [request EXCEPT !.pc = "rejected",
                                  !.outcome = ThrownError(request.response)]
    /\ UNCHANGED <<apiConfig, currentToken>>

\* return response.json(): resolves with the parsed body or rejects
BodyRead ==
    /\ UNCHANGED notApi
    /\ request.pc = "body"
    /\ request' =
           IF request.response.body = Unparseable
           THEN [request EXCEPT !.pc = "rejected", !.outcome = [name |-> "SyntaxError"]]
           ELSE [request EXCEPT !.pc = "resolved",
                                !.outcome = [value |-> JSONParse(request.response.body)]]
    /\ UNCHANGED <<apiConfig, currentToken>>

ApiNext ==
    \/ \E t \in TokenValues : TokenChanges(t)
    \/ \E a \in CallerAuthorizations : Request(a)
    \/ FetchFails
    \/ \E response \in Responses : Responds(response)
    \/ ErrorBodyRead
    \/ BodyRead

(***************************************************************************)
(* The notification queue: notificationReducer and NotificationProvider.   *)
(* Ids are numbered in the order addNotification hands them out.           *)
(***************************************************************************)
NotificationIds == 1..MaxNotifications
\* the notification types the model draws from NotificationType
NotificationTypes == {"success", "error"}
\* durations a caller passes: none at all, 0 and a positive number of ms
Durations == {0, 3000}
\* Omit<Notification, 'id'>: with or without the optional duration
NotificationInputs ==
    [type : NotificationTypes] \cup [type : NotificationTypes, duration : Durations]
\* values of the defaultDuration prop: the default 5000 and 0
DefaultDurations == {0, 5000}

\* mutant of notificationReducer: ADD_NOTIFICATION puts the payload first
notificationReducerPrepends(state, action) ==
    IF action.type = "ADD_NOTIFICATION"
    THEN [notifications |-> <<action.payload>> \o state.notifications]
    ELSE IF action.type = "REMOVE_NOTIFICATION"
    THEN LET Kept(n) == n.id # action.payload
         IN  [notifications |-> SelectSeq(state.notifications, Kept)]
    ELSE IF action.type = "CLEAR_ALL"
    THEN [notifications |-> << >>]
    ELSE state

notificationReducer(state, action) ==
    IF action.type = "ADD_NOTIFICATION"
    THEN [notifications |-> state.notifications \o <<action.payload>>]
    ELSE IF action.type = "REMOVE_NOTIFICATION"
    THEN LET Kept(n) == n.id # action.payload
         IN  [notifications |-> SelectSeq(state.notifications, Kept)]
    ELSE IF action.type = "CLEAR_ALL"
    THEN [notifications |-> << >>]
    ELSE state

\* mutant of EffectiveDuration: the provider's default is not used
EffectiveDurationWithoutDefault(notification, default) ==
    IF "duration" \in DOMAIN notification THEN notification.duration ELSE 0

\* notification.duration ?? defaultDuration
EffectiveDuration(notification, default) ==
    IF "duration" \in DOMAIN notification THEN notification.duration ELSE default

\* if (duration > 0) setTimeout(...)
SetsTimer(duration) == duration > 0

NotificationState == [notifications |-> notifications]

Queued(id) == \E k \in 1..Len(notifications) : notifications[k].id = id

NotificationInit ==
    /\ notifications = << >>
    /\ timers = {}
    /\ notificationCount = 0
    /\ defaultDuration \in DefaultDurations
    /\ notificationOp = [op |-> "none", id |-> 0, queued |-> FALSE]

\* a provider with the default defaultDuration, not used
NotificationIdle ==
    /\ notifications = << >>
    /\ timers = {}
    /\ notificationCount = 0
    /\ defaultDuration = 5000
    /\ notificationOp = [op |-> "none", id |-> 0, queued |-> FALSE]

Dispatch(action) ==
    notifications' = notificationReducer(NotificationState, action).notifications

AddNotification(notification) ==
    /\ UNCHANGED notNotifications
    /\ notificationCount < MaxNotifications
    /\ LET id == notificationCount + 1
           duration == EffectiveDuration(notification, defaultDuration)
       IN  /\ notificationCount' = id
           /\ Dispatch([type |-> "ADD_NOTIFICATION",
                        payload |-> Spread(notification, [id |-> id])])
           /\ timers' = IF SetsTimer(duration) THEN timers \cup {id} ELSE timers
           /\ notificationOp' = [op |-> "addNotification", id |-> id, queued |-> FALSE]
    /\ UNCHANGED defaultDuration

\* success / error / warning / info: addNotification({ type, message, title })
Convenience(type) ==
    AddNotification([type |-> type])

\* the user dismisses a notification
RemoveNotification(id) ==
    /\ UNCHANGED notNotifications
    /\ id <= notificationCount
    /\ Dispatch([type |-> "REMOVE_NOTIFICATION", payload |-> id])
    /\ notificationOp' = [op |-> "removeNotification", id |-> id, queued |-> Queued(id)]
    /\ UNCHANGED <<timers, notificationCount, defaultDuration>>

ClearAll ==
    /\ UNCHANGED notNotifications
    /\ Dispatch([type |-> "CLEAR_ALL"])
    /\ notificationOp' = [op |-> "clearAll", id |-> 0, queued |-> FALSE]
    /\ UNCHANGED <<timers, notificationCount, defaultDuration>>

\* the setTimeout callback of a notification runs: removeNotification(id)
TimerFires(id) ==
    /\ UNCHANGED notNotifications
    /\ id \in timers
    /\ timers' = timers \ {id}
    /\ Dispatch([type |-> "REMOVE_NOTIFICATION", payload |-> id])
    /\ notificationOp' = [op |-> "timerFires", id |-> id, queued |-> Queued(id)]
    /\ UNCHANGED <<notificationCount, defaultDuration>>

NotificationNext ==
    \/ \E notification \in NotificationInputs : AddNotification(notification)
    \/ \E type \in NotificationTypes : Convenience(type)
    \/ \E id \in NotificationIds : RemoveNotification(id)
    \/ ClearAll
    \/ \E id \in NotificationIds : TimerFires(id)

(***************************************************************************)
(* The stores and their subscribers.  Both stores are made by zustand's    *)
(* create: a mutation's set call merges the partial state into the store's *)
(* state in one assignment and then calls the store's listeners one after  *)
(* the other, synchronously; a listener may call a mutation of either      *)
(* store, which runs to its end before the listener returns.               *)
(***************************************************************************)
\* the listeners subscribed to a store, in the order they subscribed
Listeners == <<"first", "second">>

StoreState == [cart |-> CartState, auth |-> AuthState]

\* the mutations the subscribers are watched under
StoreMutations ==
    {[store |-> "cart", name |-> "addItem", product |-> p] : p \in {q \in Products : q.id = 1}}
    \cup {[store |-> "cart", name |-> "clearCart"], [store |-> "cart", name |-> "toggleCart"]}
    \cup {[store |-> "auth", name |-> "login", user |-> [f \in UserFields |-> 1], token |-> t] :
             t \in Tokens}
    \cup {[store |-> "auth", name |-> "logout"]}

\* the partial state a mutation passes to set
UpdaterOf(m, state) ==
    CASE m.name = "addItem" -> addItemUpdater(state.cart, m.product, uuidCount + 1)
      [] m.name = "clearCart" -> clearCartUpdater
      [] m.name = "toggleCart" -> toggleCartUpdater(state.cart)
      [] m.name = "login" -> loginUpdater(m.user, m.token)
      [] m.name = "logout" -> logoutUpdater

\* variant: the token is set by a call of its own before the other fields
SetCallsTokenFirst(partial) ==
    IF "token" \in DOMAIN partial
    THEN <<[token |-> partial.token], partial>>
    ELSE <<partial>>

\* the set calls a mutation makes: every action of both stores calls set
\* once, with all the fields it changes
SetCalls(partial) == <<partial>>

\* a set call on one of the stores
SetState(state, store, partial) == [state EXCEPT ![store] = set(@, partial)]

StoreBecomes(state) ==
    /\ Becomes(state.cart)
    /\ AuthBecomes(state.auth)

SubscriberIdle ==
    /\ callStack = << >>
    /\ whole = [cart |-> [items |-> << >>, isOpen |-> FALSE], auth |-> InitialAuthState]

Top == callStack[Len(callStack)]

\* the innermost mutation's current set call has a listener left to call
Notifying == callStack # << >> /\ Top.next <= Len(Listeners)

\* the bounds of the cart model
CanInvoke(m) ==
    m.name = "addItem" =>
        IF HasProduct(items, m.product.id)
        THEN getItemQuantity(m.product.id) < MaxQuantity
        ELSE uuidCount < MaxUuid

\* a mutation is called while the mutations of stack are running: its first
\* set call is applied, and the store's listeners are about to be called
Invoke(m, stack) ==
    LET calls == SetCalls(UpdaterOf(m, StoreState))
    IN  /\ CanInvoke(m)
        /\ StoreBecomes(SetState(StoreState, m.store, Head(calls)))
        /\ uuidCount' = IF m.name = "addItem" /\ ~HasProduct(items, m.product.id)
                        THEN uuidCount + 1 ELSE uuidCount
        /\ whole' = SetState(StoreState, m.store, UpdaterOf(m, StoreState))
        /\ callStack' = Append(stack, [store |-> m.store, sets |-> Tail(calls), next |-> 1])
        /\ UNCHANGED <<authStorage, notSubscribers>>

Advanced(stack) == [stack EXCEPT ![Len(stack)].next = @ + 1]

\* an event handler calls a mutation
Call(m) ==
    /\ callStack = << >>
    /\ Invoke(m, callStack)

\* the next listener is called and returns
ListenerRuns ==
    /\ Notifying
    /\ callStack' = Advanced(callStack)
    /\ UNCHANGED <<items, isOpen, uuidCount, user, token, isAuthenticated, authStorage,
                   whole, notSubscribers>>

\* the next listener is called and calls a mutation itself
ListenerMutates(m) ==
    /\ Notifying
    /\ Len(callStack) <= MaxNested
    /\ Invoke(m, Advanced(callStack))

\* all listeners have been called: the set call returns (persist then
\* writes the auth store's snapshot) and the mutation makes its next set
\* call or returns
SetReturns ==
    /\ callStack # << >>
    /\ ~Notifying
    /\ authStorage' = IF Top.store = "auth" THEN PersistedItem(AuthState) ELSE authStorage
    /\ IF Top.sets # << >>
       THEN /\ StoreBecomes(SetState(StoreState, Top.store, Head(Top.sets)))
            /\ callStack' = [callStack EXCEPT ![Len(callStack)] =
                                [store |-> Top.store, sets |-> Tail(Top.sets), next |-> 1]]
       ELSE /\ callStack' = SubSeq(callStack, 1, Len(callStack) - 1)
            /\ UNCHANGED <<items, isOpen, user, token, isAuthenticated>>
    /\ UNCHANGED <<uuidCount, whole, notSubscribers>>

SubscriberNext ==
    \/ \E m \in StoreMutations : Call(m)
    \/ ListenerRuns
    \/ \E m \in StoreMutations : ListenerMutates(m)
    \/ SetReturns

(***************************************************************************)
(* useFetch(url, options): one instance of the hook in one component.      *)
(* fetchData runs up to its first await (the fetch), from there to the     *)
(* second (response.json()), and from there to its end.                    *)
(***************************************************************************)
FetchIds == 1..MaxFetches

ImmediateValues == {"true", "false", "undefined"}

\* options.immediate ?? true
ImmediateOrTrue(immediate) == immediate # "false"

\* if (options.immediate)
IsTruthy(immediate) == immediate = "true"

NotStarted == [stage |-> "none", aborted |-> FALSE]

\* the hook after its first render
InitialHook(immediate) ==
    [data |-> null, isLoading |-> ImmediateOrTrue(immediate), error |-> null,
     mountedRef |-> TRUE, abortControllerRef |-> 0,
     fetchCount |-> 0, requests |-> [r \in FetchIds |-> NotStarted]]

\* abortControllerRef.current?.abort()
Abort(h) ==
    IF h.abortControllerRef = 0
    THEN h
    ELSE [h EXCEPT !.requests[h.abortControllerRef].aborted = TRUE]

\* fetchData up to its first await
fetchData(h) ==
    LET id == h.fetchCount + 1
        a == Abort(h)
    IN  [a EXCEPT !.abortControllerRef = id,
                  !.fetchCount = id,
                  !.requests[id] = [stage |-> "fetching", aborted |-> FALSE],
                  !.isLoading = TRUE,
                  !.error = null]

\* the effect [fetchData, options.immediate]
FetchEffect(h, immediate) == IF IsTruthy(immediate) THEN fetchData(h) ELSE h

\* the cleanup of the effect []
Cleanup(h) == [Abort(h) EXCEPT !.mountedRef = FALSE]

\* variant: the finally block sets isLoading without asking mountedRef
FinallyUnguarded(h) == [h EXCEPT !.isLoading = FALSE]

\* the finally block
Finally(h) == IF h.mountedRef THEN [h EXCEPT !.isLoading = FALSE] ELSE h

\* the try block after response.json() has resolved
Succeeds(h, r) ==
    Finally(IF h.mountedRef
            THEN [h EXCEPT !.data = [result |-> r], !.error = null]
            ELSE h)

\* variant: the catch block does not tell an AbortError from other errors
CatchesAbortToo(h, err) ==
    Finally(IF h.mountedRef
            THEN [h EXCEPT !.error = err, !.data = null]
            ELSE h)

\* the catch block for the error err
Catches(h, err) ==
    IF err.name = "AbortError"
    THEN Finally(h)
    ELSE Finally(IF h.mountedRef
                 THEN [h EXCEPT !.error = err, !.data = null]
                 ELSE h)

\* what the awaited promise of an aborted request, or a failing one, rejects with
Rejection(h, r, name) ==
    [name |-> IF h.requests[r].aborted THEN "AbortError" ELSE name, request |-> r]

\* fetchData has returned from its catch block
Settled(h, r) == [h EXCEPT !.requests[r].stage = "settled"]

\* fetchData has come to the end of its try block
Succeeded(h, r) == [h EXCEPT !.requests[r].stage = "succeeded"]

Cells(h) == <<h.data, h.error, h.isLoading>>

InFlight(h, r) == h.requests[r].stage \in {"fetching", "parsing"}

FetchInit ==
    /\ options \in ImmediateValues
    /\ strict \in BOOLEAN
    /\ phase = "rendered"
    /\ hook = InitialHook(options)
    /\ fetchOp = [op |-> "none", request |-> 0, unmounted |-> FALSE, changed |-> FALSE,
                  stored |-> FALSE]

FetchIdle ==
    /\ options = "true"
    /\ strict = FALSE
    /\ phase = "rendered"
    /\ hook = InitialHook(options)
    /\ fetchOp = [op |-> "none", request |-> 0, unmounted |-> FALSE, changed |-> FALSE,
                  stored |-> FALSE]

\* the step takes the hook to h
FetchStep(op, r, h) ==
    /\ h.fetchCount <= MaxFetches
    /\ hook' = h
    /\ fetchOp' = [op |-> op, request |-> r, unmounted |-> phase = "unmounted",
                   changed |-> Cells(h) # Cells(hook),
                   stored |-> <<h.data, h.error>> # <<hook.data, hook.error>>]
    /\ UNCHANGED <<options, strict, notFetch>>

\* the component is mounted: its effects run; under StrictMode they are
\* cleaned up and run again at once
Mount ==
    /\ phase = "rendered"
    /\ phase' = "mounted"
    /\ LET once == FetchEffect(hook, options)
       IN  FetchStep("mount", 0,
                     IF strict THEN FetchEffect(Cleanup(once), options) ELSE once)

\* the url changes: fetchData is a new function and the fetch effect runs again
UrlChanges ==
    /\ phase = "mounted"
    /\ IsTruthy(options)
    /\ hook.fetchCount < MaxFetches
    /\ phase' = phase
    /\ FetchStep("urlChanges", 0, FetchEffect(hook, options))

\* refetch() is called
Refetch ==
    /\ phase # "rendered"
    /\ hook.fetchCount < MaxFetches
    /\ phase' = phase
    /\ FetchStep("refetch", 0, fetchData(hook))

\* the component is unmounted
Unmount ==
    /\ phase = "mounted"
    /\ phase' = "unmounted"
    /\ FetchStep("unmount", 0, Cleanup(hook))

\* fetch resolves with a response
FetchResolves(r, ok) ==
    /\ hook.requests[r].stage = "fetching"
    /\ ~hook.requests[r].aborted
    /\ phase' = phase
    /\ IF ok
       THEN FetchStep("parses", r, [hook EXCEPT !.requests[r].stage = "parsing"])
       ELSE FetchStep("settles", r,
                      Settled(Catches(hook, [name |-> "Error", request |-> r]), r))

\* fetch rejects: the request was aborted or the network failed
FetchRejects(r) ==
    /\ hook.requests[r].stage = "fetching"
    /\ phase' = phase
    /\ FetchStep("settles", r, Settled(Catches(hook, Rejection(hook, r, "TypeError")), r))

\* response.json() resolves
JsonResolves(r) ==
    /\ hook.requests[r].stage = "parsing"
    /\ ~hook.requests[r].aborted
    /\ phase' = phase
    /\ FetchStep("settles", r, Succeeded(Succeeds(hook, r), r))

\* response.json() rejects: the request was aborted or the body is no JSON
JsonRejects(r) ==
    /\ hook.requests[r].stage = "parsing"
    /\ phase' = phase
    /\ FetchStep("settles", r, Settled(Catches(hook, Rejection(hook, r, "SyntaxError")), r))

FetchNext ==
    \/ Mount
    \/ UrlChanges
    \/ Refetch
    \/ Unmount
    \/ \E r \in FetchIds, ok \in BOOLEAN : FetchResolves(r, ok)
    \/ \E r \in FetchIds : FetchRejects(r)
    \/ \E r \in FetchIds : JsonResolves(r)
    \/ \E r \in FetchIds : JsonRejects(r)

(***************************************************************************)
(* useDebounce(value, delay): one instance of the hook in one component.   *)
(* Time passes in units; a timeout runs when its time is up.  A render     *)
(* with a new value or delay runs the effect's cleanup and the effect.     *)
(***************************************************************************)
DebounceValues == 1..MaxValue

Delays == 0..MaxDelay

\* setTimeout(() => setDebouncedValue(value), delay)
setTimeout(pending, captured, after) == pending \cup {[value |-> captured, left |-> after]}

\* variant: the cleanup leaves the timeout pending
clearTimeoutKeeps(pending) == pending

\* the cleanup's clearTimeout(timer): an instance has one effect, hence at
\* most one timeout, pending
clearTimeout(pending) == {}

\* the effect [value, delay] runs again: its cleanup, then its body
DebounceEffect(pending, newValue, newDelay) ==
    setTimeout(clearTimeout(pending), newValue, newDelay)

Min(a, b) == IF a < b THEN a ELSE b

DebounceInit ==
    /\ inputValue \in DebounceValues
    /\ delay \in Delays
    /\ debouncedValue = inputValue
    /\ debounceTimers = {}
    /\ debouncePhase = "rendered"
    /\ sinceChange = 0
    /\ changes = 0
    /\ debounceOp = [op |-> "none", changed |-> FALSE]

DebounceIdle ==
    /\ inputValue = 1
    /\ delay = 0
    /\ debouncedValue = inputValue
    /\ debounceTimers = {}
    /\ debouncePhase = "rendered"
    /\ sinceChange = 0
    /\ changes = 0
    /\ debounceOp = [op |-> "none", changed |-> FALSE]

DebounceRemember(op) ==
    debounceOp' = [op |-> op, changed |-> debouncedValue' # debouncedValue]

\* the component is mounted: the effect runs for the first time
DebounceMount ==
    /\ debouncePhase = "rendered"
    /\ debouncePhase' = "mounted"
    /\ debounceTimers' = setTimeout(debounceTimers, inputValue, delay)
    /\ UNCHANGED <<inputValue, delay, debouncedValue, sinceChange, changes>>
    /\ DebounceRemember("mount")
    /\ UNCHANGED notDebounce

\* the component renders with another value
ValueChanges(v) ==
    /\ debouncePhase = "mounted"
    /\ v # inputValue
    /\ changes < MaxChanges
    /\ changes' = changes + 1
    /\ inputValue' = v
    /\ sinceChange' = 0
    /\ debounceTimers' = DebounceEffect(debounceTimers, v, delay)
    /\ UNCHANGED <<delay, debouncedValue, debouncePhase>>
    /\ DebounceRemember("valueChanges")
    /\ UNCHANGED notDebounce

\* the component renders with another delay
DelayChanges(d) ==
    /\ debouncePhase = "mounted"
    /\ d # delay
    /\ changes < MaxChanges
    /\ changes' = changes + 1
    /\ delay' = d
    /\ debounceTimers' = DebounceEffect(debounceTimers, inputValue, d)
    /\ UNCHANGED <<inputValue, debouncedValue, debouncePhase, sinceChange>>
    /\ DebounceRemember("delayChanges")
    /\ UNCHANGED notDebounce

\* a unit of time passes while no timeout is due
Tick ==
    /\ debounceTimers # {}
    /\ \A t \in debounceTimers : t.left > 0
    /\ debounceTimers' = {[t EXCEPT !.left = @ - 1] : t \in debounceTimers}
    /\ sinceChange' = Min(sinceChange + 1, MaxDelay)
    /\ UNCHANGED <<inputValue, delay, debouncedValue, debouncePhase, changes>>
    /\ DebounceRemember("tick")
    /\ UNCHANGED notDebounce

\* a timeout's time is up: its callback calls setDebouncedValue
TimeoutRuns(t) ==
    /\ t \in debounceTimers
    /\ t.left = 0
    /\ debounceTimers' = debounceTimers \ {t}
    /\ debouncedValue' = t.value
    /\ UNCHANGED <<inputValue, delay, debouncePhase, sinceChange, changes>>
    /\ DebounceRemember("timeoutRuns")
    /\ UNCHANGED notDebounce

\* the component is unmounted: the effect's cleanup runs
DebounceUnmount ==
    /\ debouncePhase = "mounted"
    /\ debouncePhase' = "unmounted"
    /\ debounceTimers' = clearTimeout(debounceTimers)
    /\ UNCHANGED <<inputValue, delay, debouncedValue, sinceChange, changes>>
    /\ DebounceRemember("unmount")
    /\ UNCHANGED notDebounce

PendingTimers == [value : DebounceValues, left : Delays]

DebounceNext ==
    \/ DebounceMount
    \/ \E v \in DebounceValues : ValueChanges(v)
    \/ \E d \in Delays : DelayChanges(d)
    \/ Tick
    \/ \E t \in PendingTimers : TimeoutRuns(t)
    \/ DebounceUnmount

(***************************************************************************)
(* useLocalStorage(key, initialValue): one instance of the hook, with      *)
(* values that React compares by value.  A call of the setter with another *)
(* value renders the component again, and the effect [key, storedValue]    *)
(* then runs before any other event is handled.                            *)
(***************************************************************************)
StorageValues == 0..MaxValue

\* what the entry may hold: nothing, the empty string, a text that is no
\* JSON, or the JSON text of a value
EmptyString == [empty |-> TRUE]
StorageItems == {null, EmptyString, Unparseable} \cup {JSONStringify(v) : v \in StorageValues}

\* the lazy initial state: item ? JSON.parse(item) : initialValue, and
\* initialValue if JSON.parse throws
InitialStoredValue(item, initial) ==
    IF item \in {null, EmptyString, Unparseable} THEN initial ELSE JSONParse(item)

LocalStorageInit ==
    /\ initialValue \in StorageValues
    /\ localStorageItem \in StorageItems
    /\ storedValue = InitialStoredValue(localStorageItem, initialValue)
    /\ syncPending = TRUE
    /\ storageOp = [op |-> "render", cause |-> "none"]

LocalStorageIdle ==
    /\ initialValue = 1
    /\ localStorageItem = null
    /\ storedValue = InitialStoredValue(localStorageItem, initialValue)
    /\ syncPending = TRUE
    /\ storageOp = [op |-> "render", cause |-> "none"]

\* setStoredValue(v): the state cell takes v; the component renders again,
\* and the effect is due, only if v is another value
SetsStoredValue(v) ==
    /\ storedValue' = v
    /\ syncPending' = (v # storedValue)

\* the effect [key, storedValue]
SyncEffect ==
    /\ syncPending
    /\ localStorageItem' = JSONStringify(storedValue)
    /\ syncPending' = FALSE
    /\ storageOp' = [op |-> "effect", cause |-> storageOp.op]
    /\ UNCHANGED <<initialValue, storedValue>>
    /\ UNCHANGED notLocalStorage

\* the component calls the setter the hook returns
SetValue(v) ==
    /\ ~syncPending
    /\ SetsStoredValue(v)
    /\ storageOp' = [op |-> "setValue", cause |-> "none"]
    /\ UNCHANGED <<initialValue, localStorageItem>>
    /\ UNCHANGED notLocalStorage

removeValue ==
    /\ ~syncPending
    /\ localStorageItem' = null
    /\ SetsStoredValue(initialValue)
    /\ storageOp' = [op |-> "removeValue", cause |-> "none"]
    /\ UNCHANGED initialValue
    /\ UNCHANGED notLocalStorage

\* another tab has set or removed the entry: the storage event's handler
handleStorageChange(newValue) ==
    /\ ~syncPending
    /\ newValue # localStorageItem
    /\ localStorageItem' = newValue
    /\ IF newValue \in {null, EmptyString, Unparseable}
       THEN UNCHANGED <<storedValue, syncPending>>
       ELSE SetsStoredValue(JSONParse(newValue))
    /\ storageOp' = [op |-> "storage", cause |-> "none"]
    /\ UNCHANGED initialValue
    /\ UNCHANGED notLocalStorage

LocalStorageNext ==
    \/ SyncEffect
    \/ \E v \in StorageValues : SetValue(v)
    \/ removeValue
    \/ \E newValue \in StorageItems : handleStorageChange(newValue)

(***************************************************************************)
(* App: the routes and what they render for a state of the auth store.     *)
(***************************************************************************)
Paths == {"/", "/login", "/dashboard", "/users", "/other"}

\* <Navigate to=... replace />
Navigate(to) == [navigate |-> to, replace |-> TRUE]

\* a page component
Page(name) == [page |-> name]

\* the selector hook
useIsAuthenticated(state) == state.isAuthenticated

\* variant: the children are rendered whatever the store says
ProtectedRouteOpen(state, children) == children

ProtectedRoute(state, children) ==
    IF ~useIsAuthenticated(state) THEN Navigate("/login") ELSE children

\* <Routes>: the element rendered for a path
Routes(path, state) ==
    CASE path = "/" -> Page("HomePage")
      [] path = "/login" -> Page("LoginPage")
      [] path = "/dashboard" -> ProtectedRoute(state, Page("DashboardPage"))
      [] path = "/users" -> ProtectedRoute(state, Page("UsersPage"))
      [] OTHER -> Page("NotFoundPage")

(***************************************************************************)
(* ThemeProvider.  setTheme writes localStorage at once and queues the     *)
(* state update; React renders the provider when the event handler that    *)
(* made the calls has returned, so a handler may make several calls that   *)
(* all see the resolvedTheme of the last render.                           *)
(***************************************************************************)
Themes == {"light", "dark", "system"}

ResolvedThemes == {"light", "dark"}

\* null where a theme may stand (no entry, no update), written as a string
\* so that it compares with the themes
NoTheme == "null"

\* the lazy initial state: localStorage.getItem(storageKey) || defaultTheme
InitialTheme(item, default) == IF item # NoTheme THEN item ELSE default

\* theme === 'system' ? systemTheme : theme
ResolvedThemeOf(t, system) == IF t = "system" THEN system ELSE t

resolvedTheme == ResolvedThemeOf(theme, systemTheme)

\* variant: toggleTheme looks at theme instead of resolvedTheme
ToggledFromTheme(resolved) == IF theme = "light" THEN "dark" ELSE "light"

\* resolvedTheme === 'light' ? 'dark' : 'light'
Toggled(resolved) == IF resolved = "light" THEN "dark" ELSE "light"

ThemeInit ==
    /\ defaultTheme \in Themes
    /\ themeStorage \in {NoTheme} \cup Themes
    /\ systemTheme \in ResolvedThemes
    /\ theme = InitialTheme(themeStorage, defaultTheme)
    /\ themeUpdate = NoTheme
    /\ themeOp = [op |-> "none", resolved |-> "light", called |-> FALSE, rendered |-> TRUE]

ThemeIdle ==
    /\ defaultTheme = "system"
    /\ themeStorage = NoTheme
    /\ systemTheme = "light"
    /\ theme = InitialTheme(themeStorage, defaultTheme)
    /\ themeUpdate = NoTheme
    /\ themeOp = [op |-> "none", resolved |-> "light", called |-> FALSE, rendered |-> TRUE]

\* the body of setTheme
SetsTheme(newTheme) ==
    /\ themeStorage' = newTheme
    /\ themeUpdate' = newTheme

setTheme(newTheme) ==
    /\ SetsTheme(newTheme)
    /\ themeOp' = [op |-> "setTheme", resolved |-> resolvedTheme, called |-> TRUE,
                   rendered |-> FALSE]
    /\ UNCHANGED <<defaultTheme, theme, systemTheme>>
    /\ UNCHANGED notTheme

toggleTheme ==
    /\ SetsTheme(Toggled(resolvedTheme))
    /\ themeOp' = [op |-> "toggleTheme", resolved |-> resolvedTheme, called |-> TRUE,
                   rendered |-> FALSE]
    /\ UNCHANGED <<defaultTheme, theme, systemTheme>>
    /\ UNCHANGED notTheme

\* the event handler has returned: the provider renders with the last update
ThemeRenders ==
    /\ themeUpdate # NoTheme
    /\ theme' = themeUpdate
    /\ themeUpdate' = NoTheme
    /\ themeOp' = [themeOp EXCEPT !.rendered = TRUE]
    /\ UNCHANGED <<defaultTheme, systemTheme, themeStorage>>
    /\ UNCHANGED notTheme

\* the system's colour scheme changes: handleChange, and the render after it
handleChange(matches) ==
    /\ themeUpdate = NoTheme
    /\ systemTheme' = IF matches THEN "dark" ELSE "light"
    /\ systemTheme' # systemTheme
    /\ themeOp' = [themeOp EXCEPT !.op = "handleChange", !.rendered = TRUE]
    /\ UNCHANGED <<defaultTheme, theme, themeUpdate, themeStorage>>
    /\ UNCHANGED notTheme

\* the page is loaded again: a new provider is created
ThemeProviderCreated ==
    /\ themeUpdate = NoTheme
    /\ themeOp.op # "created"
    /\ theme' = InitialTheme(themeStorage, defaultTheme)
    /\ themeOp' = [themeOp EXCEPT !.op = "created", !.rendered = TRUE]
    /\ UNCHANGED <<defaultTheme, systemTheme, themeUpdate, themeStorage>>
    /\ UNCHANGED notTheme

ThemeNext ==
    \/ \E newTheme \in Themes : setTheme(newTheme)
    \/ toggleTheme
    \/ ThemeRenders
    \/ \E matches \in BOOLEAN : handleChange(matches)
    \/ ThemeProviderCreated

(***************************************************************************)
(* The default apiClient together with the auth store: getToken reads the  *)
(* snapshot persist keeps in localStorage, onUnauthorized removes it and   *)
(* sends the browser to /login, which loads the page again some time       *)
(* later.  The callers of apiClient pass no headers.                       *)
(***************************************************************************)
\* apiClient's getToken
DefaultGetToken(authData) ==
    IF authData # null THEN JSONParse(authData).state.token ELSE null

SessionIdle == session = [unauthorized |-> FALSE, later |-> null]

\* the users that log in while the session is watched
SessionUsers == {[f \in UserFields |-> n] : n \in 1..MaxValue}

\* an action of the auth store, after which getToken returns what the
\* snapshot holds
SessionMutates(op, fields, state) ==
    /\ AuthMutates(state)
    /\ AuthRemember(op, fields)
    /\ currentToken' = DefaultGetToken(authStorage')
    /\ UNCHANGED <<apiConfig, request>>
    /\ UNCHANGED notSession

SessionLogin(u, t) ==
    /\ SessionMutates("login", {}, login(AuthState, u, t))
    /\ session' = [unauthorized |-> FALSE, later |-> null]

SessionLogout ==
    /\ SessionMutates("logout", {}, logout(AuthState))
    /\ session' = session

SessionUpdateUser(updates) ==
    /\ SessionMutates("updateUser", DOMAIN updates, updateUser(AuthState, updates))
    /\ session' = session

\* the page is loaded again (after the redirect, or by the user)
SessionReload ==
    /\ AuthBecomes(Hydrate(authStorage))
    /\ \/ authStorage' = authStorage
       \/ authStorage' = PersistedItem(Hydrate(authStorage))
    /\ AuthRemember("rehydrate", {})
    /\ currentToken' = DefaultGetToken(authStorage')
    /\ request' = NotCalled
    /\ UNCHANGED <<apiConfig, session>>
    /\ UNCHANGED notSession

\* a service calls apiClient
SessionRequest ==
    /\ request.pc \in {"idle", "resolved", "rejected"}
    /\ LET t == GetToken(apiConfig, DefaultGetToken(authStorage))
       IN  /\ request' = [NotCalled EXCEPT !.pc = "fetch",
                                           !.tokenAtBuild = t,
                                           !.headers = BuildHeaders(null, t),
                                           !.fetches = 1]
           /\ session' = IF session.unauthorized
                         THEN [session EXCEPT !.later = BuildHeaders(null, t).Authorization]
                         ELSE session
    /\ UNCHANGED <<apiConfig, currentToken, authVars>>
    /\ UNCHANGED notSession

\* fetch resolves with a response; on a 401 apiClient's onUnauthorized
\* removes the snapshot
SessionResponds(response) ==
    /\ request.pc = "fetch"
    /\ request' = [request EXCEPT
           !.response = response,
           !.pc = IF ~Ok(response.status) THEN "errorBody"
                  ELSE IF response.status = 204 THEN "resolved"
                  ELSE "body",
           !.outcome = IF Ok(response.status) /\ response.status = 204
                       THEN [value |-> "undefined"] ELSE null,
           !.onUnauthorizedCalls =
               IF CallsOnUnauthorized(apiConfig, response) THEN @ + 1 ELSE @]
    /\ IF CallsOnUnauthorized(apiConfig, response)
       THEN /\ authStorage' = null
            /\ currentToken' = null
            /\ AuthRemember("onUnauthorized", {})
            /\ session' = [unauthorized |-> TRUE, later |-> null]
       ELSE UNCHANGED <<authStorage, currentToken, authOp, session>>
    /\ UNCHANGED <<apiConfig, user, token, isAuthenticated>>
    /\ UNCHANGED notSession

SessionNext ==
    \/ \E u \in SessionUsers, t \in Tokens : SessionLogin(u, t)
    \/ SessionLogout
    \/ \E updates \in Updates : SessionUpdateUser(updates)
    \/ SessionReload
    \/ SessionRequest
    \/ FetchFails
    \/ \E response \in Responses : SessionResponds(response)
    \/ ErrorBodyRead
    \/ BodyRead

(***************************************************************************)
(* UserList: a page of users fetched with useQuery under the key           *)
(* ['users', {page, search: debouncedSearch}], a search box, Previous and  *)
(* Next buttons, and a modal that deletes a user.  The users service is    *)
(* outside the repository: it is taken to hold some users, to answer a     *)
(* list request with the count of the users that match the search text,    *)
(* and to report totalPages as that count divided by pageSize, rounded up. *)
(***************************************************************************)
\* pageSize: 10 in the query function
pageSize == 10

\* the texts of the search box: empty, or a text some users match
SearchTexts == {"", "a"}

\* the users of the service, by whether the search text matches them
UserKinds == {"matching", "others"}

Servers ==
    {sv \in [UserKinds -> 0..MaxUsers] : sv.matching + sv.others <= MaxUsers}

\* the users a search text selects
TotalItems(sv, text) == IF text = "" THEN sv.matching + sv.others ELSE sv.matching

CeilDiv(a, b) == (a + b - 1) \div b

\* usersService.getAll({page, pageSize: 10, search}): the pagination of the
\* response
GetAll(sv, p, text) ==
    [page |-> p,
     pageSize |-> pageSize,
     totalPages |-> CeilDiv(TotalItems(sv, text), pageSize),
     totalItems |-> TotalItems(sv, text)]

\* usersData?.data.length for a response with this pagination
DataLength(pagination) ==
    LET rest == pagination.totalItems - (pagination.page - 1) * pagination.pageSize
    IN  IF rest <= 0 THEN 0 ELSE Min(rest, pagination.pageSize)

\* the component renders neither the loading skeleton nor the error card,
\* and the modal is not over the list
ListShown ==
    /\ usersData # null
    /\ queryStatus # "error"
    /\ ~isDeleteModalOpen

\* pagination && pagination.totalPages > 1
PaginationShown == ListShown /\ usersData.totalPages > 1

\* the component as mounted: page 1, no search text, the first request sent
UserListInit ==
    /\ page = 1
    /\ search = ""
    /\ debouncedSearch = ""
    /\ usersData = null
    /\ queryStatus = "fetching"
    /\ selectedUser = null
    /\ isDeleteModalOpen = FALSE
    /\ deletePending = null
    /\ server \in Servers

\* no UserList is rendered
UserListIdle ==
    /\ page = 1
    /\ search = ""
    /\ debouncedSearch = ""
    /\ usersData = null
    /\ queryStatus = "idle"
    /\ selectedUser = null
    /\ isDeleteModalOpen = FALSE
    /\ deletePending = null
    /\ server = [matching |-> 0, others |-> 0]

\* setPage((p) => p + 1)
SetPageNext(p) == p + 1

\* setPage((p) => p - 1)
SetPagePrevious(p) == p - 1

\* the key of the query changes: the query of the new key is fetched, the
\* data of the old key stays as placeholder
KeyChanges == queryStatus' = "fetching" /\ UNCHANGED usersData

\* onChange of the search box
ChangeSearch(text) ==
    /\ UNCHANGED notUserList
    /\ ListShown
    /\ text # search
    /\ search' = text
    /\ UNCHANGED <<page, debouncedSearch, usersData, queryStatus, selectedUser,
                   isDeleteModalOpen, deletePending, server>>

\* useDebounce(search, 300): the search text has been left alone for 300 ms
DebouncedSearchChanges ==
    /\ UNCHANGED notUserList
    /\ queryStatus # "idle"
    /\ debouncedSearch # search
    /\ debouncedSearch' = search
    /\ KeyChanges
    /\ UNCHANGED <<page, search, selectedUser, isDeleteModalOpen, deletePending, server>>

\* the Previous button: disabled={page === 1}
ClickPrevious ==
    /\ UNCHANGED notUserList
    /\ PaginationShown
    /\ page # 1
    /\ page' = SetPagePrevious(page)
    /\ KeyChanges
    /\ UNCHANGED <<search, debouncedSearch, selectedUser, isDeleteModalOpen,
                   deletePending, server>>

\* the Next button: disabled={page === pagination.totalPages}
ClickNext ==
    /\ UNCHANGED notUserList
    /\ PaginationShown
    /\ page # usersData.totalPages
    /\ page < MaxPage
    /\ page' = SetPageNext(page)
    /\ KeyChanges
    /\ UNCHANGED <<search, debouncedSearch, selectedUser, isDeleteModalOpen,
                   deletePending, server>>

\* the request of the current key is answered
QueryResolves ==
    /\ UNCHANGED notUserList
    /\ queryStatus = "fetching"
    /\ usersData' = GetAll(server, page, debouncedSearch)
    /\ queryStatus' = "success"
    /\ UNCHANGED <<page, search, debouncedSearch, selectedUser, isDeleteModalOpen,
                   deletePending, server>>

\* the request of the current key fails for good
QueryFails ==
    /\ UNCHANGED notUserList
    /\ queryStatus = "fetching"
    /\ queryStatus' = "error"
    /\ UNCHANGED <<page, search, debouncedSearch, usersData, selectedUser,
                   isDeleteModalOpen, deletePending, server>>

\* the Retry button of the error card: invalidateQueries(['users'])
Retry ==
    /\ UNCHANGED notUserList
    /\ queryStatus = "error"
    /\ queryStatus' = "fetching"
    /\ UNCHANGED <<page, search, debouncedSearch, usersData, selectedUser,
                   isDeleteModalOpen, deletePending, server>>

\* handleDeleteClick(user), for a user of the list shown that the service
\* still holds
HandleDeleteClick(kind) ==
    /\ UNCHANGED notUserList
    /\ ListShown
    /\ DataLength(usersData) > 0
    /\ server[kind] > 0
    /\ kind = "others" => debouncedSearch = ""
    /\ selectedUser' = [kind |-> kind]
    /\ isDeleteModalOpen' = TRUE
    /\ UNCHANGED <<page, search, debouncedSearch, usersData, queryStatus,
                   deletePending, server>>

\* toggleDeleteModal, from the modal's Cancel button or its onClose, which
\* work while a deletion is pending too
ToggleDeleteModal ==
    /\ UNCHANGED notUserList
    /\ isDeleteModalOpen
    /\ isDeleteModalOpen' = ~isDeleteModalOpen
    /\ UNCHANGED <<page, search, debouncedSearch, usersData, queryStatus,
                   selectedUser, deletePending, server>>

\* handleConfirmDelete: if (selectedUser) deleteMutation.mutate(selectedUser.id);
\* the button shows isLoading while a deletion is pending
HandleConfirmDelete ==
    /\ UNCHANGED notUserList
    /\ isDeleteModalOpen
    /\ deletePending = null
    /\ selectedUser # null
    /\ deletePending' = selectedUser
    /\ UNCHANGED <<page, search, debouncedSearch, usersData, queryStatus,
                   selectedUser, isDeleteModalOpen, server>>

\* the service deletes the user and onSuccess runs: the users queries are
\* invalidated, so the one shown is fetched again, the modal is closed and
\* the selection dropped
DeleteSucceeds ==
    /\ UNCHANGED notUserList
    /\ deletePending # null
    /\ server[deletePending.kind] > 0
    /\ server' = [server EXCEPT ![deletePending.kind] = @ - 1]
    /\ deletePending' = null
    /\ queryStatus' = "fetching"
    /\ isDeleteModalOpen' = FALSE
    /\ selectedUser' = null
    /\ UNCHANGED <<page, search, debouncedSearch, usersData>>

\* the delete request fails: the mutation has no onError
DeleteFails ==
    /\ UNCHANGED notUserList
    /\ deletePending # null
    /\ deletePending' = null
    /\ UNCHANGED <<page, search, debouncedSearch, usersData, queryStatus,
                   selectedUser, isDeleteModalOpen, server>>

UserListNext ==
    \/ \E text \in SearchTexts : ChangeSearch(text)
    \/ DebouncedSearchChanges
    \/ ClickPrevious
    \/ ClickNext
    \/ QueryResolves
    \/ QueryFails
    \/ Retry
    \/ \E kind \in UserKinds : HandleDeleteClick(kind)
    \/ ToggleDeleteModal
    \/ HandleConfirmDelete
    \/ DeleteSucceeds
    \/ DeleteFails

\* the hooks not used
HooksIdle ==
    /\ FetchIdle /\ DebounceIdle /\ LocalStorageIdle /\ ThemeIdle /\ SessionIdle
    /\ UserListIdle

\* the stores' initial state, the other parts not used
Init == CartInit /\ AuthInit /\ ApiIdle /\ NotificationIdle /\ SubscriberIdle /\ HooksIdle

\* a component that uses useFetch, with any options, with or without StrictMode
FetchSpecInit ==
    /\ CartInit /\ AuthInit /\ ApiIdle /\ NotificationIdle /\ SubscriberIdle
    /\ FetchInit /\ DebounceIdle /\ LocalStorageIdle /\ ThemeIdle /\ SessionIdle /\ UserListIdle

\* a component that uses useDebounce, with any value and delay
DebounceSpecInit ==
    /\ CartInit /\ AuthInit /\ ApiIdle /\ NotificationIdle /\ SubscriberIdle
    /\ FetchIdle /\ DebounceInit /\ LocalStorageIdle /\ ThemeIdle /\ SessionIdle /\ UserListIdle

\* a component that uses useLocalStorage, with any initialValue and any entry
LocalStorageSpecInit ==
    /\ CartInit /\ AuthInit /\ ApiIdle /\ NotificationIdle /\ SubscriberIdle
    /\ FetchIdle /\ DebounceIdle /\ LocalStorageInit /\ ThemeIdle /\ SessionIdle /\ UserListIdle

\* a UserList over a service that holds any number of users
UserListSpecInit ==
    /\ CartInit /\ AuthInit /\ ApiIdle /\ NotificationIdle /\ SubscriberIdle
    /\ FetchIdle /\ DebounceIdle /\ LocalStorageIdle /\ ThemeIdle /\ SessionIdle
    /\ UserListInit

\* a ThemeProvider with any defaultTheme, system theme and stored theme
ThemeSpecInit ==
    /\ CartInit /\ AuthInit /\ ApiIdle /\ NotificationIdle /\ SubscriberIdle
    /\ FetchIdle /\ DebounceIdle /\ LocalStorageIdle /\ ThemeInit /\ SessionIdle /\ UserListIdle

\* an API client of any configuration
ApiSpecInit == CartInit /\ AuthInit /\ ApiInit /\ NotificationIdle /\ SubscriberIdle /\ HooksIdle

\* a notification provider of any defaultDuration
NotificationSpecInit ==
    CartInit /\ AuthInit /\ ApiIdle /\ NotificationInit /\ SubscriberIdle /\ HooksIdle

CartNext ==
    \/ \E product \in Products : AddItem(product)
    \/ \E productId \in ProductIds : RemoveItem(productId)
    \/ \E productId \in ProductIds, quantity \in Quantities :
          UpdateQuantity(productId, quantity)
    \/ ClearCart
    \/ ToggleCart

AuthNext ==
    \/ \E u \in Users, t \in Tokens : Login(u, t)
    \/ Logout
    \/ \E updates \in Updates : UpdateUser(updates)
    \/ OnUnauthorized
    \/ Rehydrate

\* the cart store alone
CartSpec == Init /\ [][CartNext]_vars

\* the auth store alone
AuthSpec == Init /\ [][AuthNext]_vars

\* the API client alone
ApiSpec == ApiSpecInit /\ [][ApiNext]_vars

\* the two stores with subscribers
SubscriberSpec == Init /\ [][SubscriberNext]_vars

FetchSpec == FetchSpecInit /\ [][FetchNext]_vars

\* time passes, and the event loop runs every timeout whose time is up
DebounceSpec ==
    /\ DebounceSpecInit
    /\ [][DebounceNext]_vars
    /\ WF_vars(Tick)
    /\ WF_vars(\E t \in PendingTimers : TimeoutRuns(t))

ThemeSpec == ThemeSpecInit /\ [][ThemeNext]_vars

\* the UserList component and the users service
UserListSpec == UserListSpecInit /\ [][UserListNext]_vars

\* the auth store and the default apiClient together
SessionSpec == Init /\ [][SessionNext]_vars

\* every effect that is due runs
LocalStorageSpec ==
    /\ LocalStorageSpecInit
    /\ [][LocalStorageNext]_vars
    /\ WF_vars(SyncEffect)

\* the notification queue alone; a callback given to setTimeout does run
NotificationSpec ==
    /\ NotificationSpecInit
    /\ [][NotificationNext]_vars
    /\ \A id \in NotificationIds : WF_vars(TimerFires(id))

(***************************************************************************)
(* Properties of the cart store.                                           *)
(***************************************************************************)
\* the line items held for a product id
LinesOf(arr, productId) == {k \in 1..Len(arr) : arr[k].product.id = productId}

\* C1: starting from a cart with no line item for a product id, after n >= 1
\* addItem calls for that id (interleaved only with actions on other ids and
\* toggleCart), the cart holds exactly one line item for it, of quantity n.
C1_AddItemCountsCalls ==
    \A p \in ProductIds :
        (onlyAdds[p] /\ addCalls[p] >= 1) =>
            /\ Cardinality(LinesOf(items, p)) = 1
            /\ \A k \in LinesOf(items, p) : items[k].quantity = addCalls[p]

\* two addItem calls for one id, the last one just made, with another
\* product's line item in the cart
C1_Witness ==
    /\ cartOp.op = "addItem"
    /\ onlyAdds[cartOp.productId]
    /\ addCalls[cartOp.productId] >= 2
    /\ Len(items) >= 2

\* C2: in every reachable state the items hold at most one line item per
\* product id.
C2_OneLinePerProduct ==
    \A p \in ProductIds : Cardinality(LinesOf(items, p)) <= 1

\* addItem has just been called for a product that already had a line item,
\* after a line item was removed and added again
C2_Witness ==
    /\ cartOp.op = "addItem"
    /\ cartOp.before >= 1
    /\ Len(items) = MaxProductId
    /\ uuidCount > MaxProductId

\* C3: for every cart state and product id, updateQuantity(id, q) with q <= 0
\* gives the same state (items, order, isOpen) as removeItem(id).
C3_NonPositiveUpdateIsRemove ==
    \A p \in ProductIds, q \in Quantities :
        q <= 0 => updateQuantity(CartState, p, q) = removeItem(CartState, p)

\* updateQuantity(id, 0) has just deleted a line item and left another one
C3_Witness ==
    /\ cartOp.op = "updateQuantity"
    /\ cartOp.quantity = 0
    /\ cartOp.before >= 1
    /\ Len(items) >= 1
    /\ isOpen

\* C4: removeItem(P.id) directly followed by addItem(P) leaves exactly one
\* line item for P, of quantity 1, whatever quantity was removed.
C4_ReAddStartsAtOne ==
    (cartOp.op = "addItem" /\ cartOp.afterRemove >= 1) =>
        /\ Cardinality(LinesOf(items, cartOp.productId)) = 1
        /\ \A k \in LinesOf(items, cartOp.productId) : items[k].quantity = 1

\* a line item of quantity >= 2 was removed and the product added again
C4_Witness ==
    /\ cartOp.op = "addItem"
    /\ cartOp.afterRemove >= 2
    /\ Len(items) >= 2

\* C5: clearCart results in an empty items collection, so that getTotalItems
\* and getTotalPrice return 0 and getItemQuantity returns 0 for every id.
C5_ClearCartEmpties ==
    cartOp.op = "clearCart" =>
        /\ items = << >>
        /\ getTotalItems = 0
        /\ getTotalPrice = 0
        /\ \A p \in ProductIds : getItemQuantity(p) = 0

\* clearCart has just run on an open cart holding a line item per product id
C5_Witness ==
    /\ cartOp.op = "clearCart"
    /\ cartOp.size = MaxProductId
    /\ isOpen

\* the sum of price * quantity over the line items at the given positions
RECURSIVE SumAt(_, _)
SumAt(arr, positions) ==
    IF positions = {} THEN 0
    ELSE LET k == CHOOSE x \in positions : TRUE
         IN  arr[k].product.price * arr[k].quantity + SumAt(arr, positions \ {k})

\* C6: in every reachable state getTotalPrice is the sum over the current
\* line items of product.price * quantity (0 for the empty cart).
C6_TotalPriceIsSum ==
    /\ getTotalPrice = SumAt(items, 1..Len(items))
    /\ items = << >> => getTotalPrice = 0

\* the spec's example, read right after a mutation: prices 10 and 20,
\* quantities 2 and 1, total 40
C6_Witness ==
    /\ cartOp.op \in {"addItem", "updateQuantity"}
    /\ Len(items) = 2
    /\ items[1].product.price = 10 /\ items[1].quantity = 2
    /\ items[2].product.price = 20 /\ items[2].quantity = 1
    /\ getTotalPrice = 40

\* C7: removeItem(id) deletes exactly the line item whose product id is id,
\* keeps every other line item and their order, and changes nothing when no
\* line item has that product id.
C7_RemoveItemFrame ==
    \A p \in ProductIds :
        LET after == removeItem(CartState, p)
            Others(i) == i.product.id # p
        IN  /\ after.items = SelectSeq(items, Others)
            /\ Len(after.items) = Len(items) - Cardinality(LinesOf(items, p))
            /\ LinesOf(items, p) = {} => after.items = items
            /\ after.isOpen = isOpen

\* removeItem has just deleted the first of several line items
C7_Witness ==
    /\ cartOp.op = "removeItem"
    /\ cartOp.before >= 1
    /\ cartOp.size >= 2
    /\ Len(items) = cartOp.size - 1
    /\ items[1].id > 1

\* C8: updateQuantity(id, q) with q > 0 sets the quantity of the line item
\* whose product id is id to q, keeps every other line item and the order,
\* and creates no line item when none matches.
C8_UpdateQuantitySets ==
    \A p \in ProductIds, q \in Quantities :
        q > 0 =>
            LET after == updateQuantity(CartState, p, q).items
            IN  /\ Len(after) = Len(items)
                /\ \A k \in 1..Len(items) :
                      /\ after[k].id = items[k].id
                      /\ after[k].product = items[k].product
                      /\ after[k].quantity =
                            IF items[k].product.id = p THEN q ELSE items[k].quantity

\* updateQuantity has just changed one line item's quantity, with another
\* line item in the cart
C8_Witness ==
    /\ cartOp.op = "updateQuantity"
    /\ cartOp.quantity >= 2
    /\ cartOp.before >= 1
    /\ cartOp.before # cartOp.quantity
    /\ Len(items) >= 2
    /\ getItemQuantity(cartOp.productId) = cartOp.quantity

(***************************************************************************)
(* Properties of the auth store.                                           *)
(***************************************************************************)
\* C9: from every reachable auth-store state, login(user, token) followed by
\* logout() yields the initial state: user = null, token = null,
\* isAuthenticated = false.
C9_LoginLogoutIsInitial ==
    /\ \A u \in Users, t \in Tokens :
          logout(login(AuthState, u, t)) = InitialAuthState
    /\ (authOp.op = "logout" /\ authOp.prior = "login") =>
          /\ user = null
          /\ token = null
          /\ isAuthenticated = FALSE

\* logout has just run directly after a login that replaced an earlier session
C9_Witness ==
    /\ authOp.op = "logout"
    /\ authOp.prior = "login"
    /\ authOp.hadUser
    /\ AuthState = InitialAuthState

\* C10: updateUser(fields) merges the given fields into the current user
\* (given fields win, other fields kept) when a user exists, leaves the
\* whole state unchanged when no user exists, and never changes token or
\* isAuthenticated.
C10_UpdateUserMerges ==
    \A updates \in Updates :
        LET after == updateUser(AuthState, updates)
        IN  /\ after.token = token
            /\ after.isAuthenticated = isAuthenticated
            /\ user = null => after = AuthState
            /\ user # null =>
                  /\ DOMAIN after.user = UserFields
                  /\ \A f \in UserFields :
                        after.user[f] =
                            IF f \in DOMAIN updates THEN updates[f] ELSE user[f]

\* updateUser has just changed one field of an existing user and kept another
C10_Witness ==
    /\ authOp.op = "updateUser"
    /\ authOp.hadUser
    /\ authOp.fields = {"name"}
    /\ user # null
    /\ user.name # user.email
    /\ isAuthenticated
    /\ token # null

\* C11: after every login, logout or updateUser the snapshot under
\* 'auth-storage' holds exactly the store's user, token and isAuthenticated,
\* so that a store created after a restart starts in the state the last
\* mutation left.
C11_SnapshotMirrorsState ==
    authOp.op \in {"login", "logout", "updateUser"} =>
        /\ authStorage # null
        /\ JSONParse(authStorage).state =
              [user |-> user, token |-> token, isAuthenticated |-> isAuthenticated]
        /\ Hydrate(authStorage) = AuthState

\* updateUser has just changed an existing user after the snapshot had been
\* removed from localStorage
C11_Witness ==
    /\ authOp.op = "updateUser"
    /\ authOp.prior = "onUnauthorized"
    /\ authOp.hadUser
    /\ authOp.fields # {}
    /\ token # null
    /\ authStorage # null

\* C27: in every state the auth store reaches by login (with a user and a
\* token), logout and updateUser, isAuthenticated is true exactly when user
\* is not null, and exactly when token is not null; every one of the three
\* actions keeps it so.
C27_AuthenticatedIffUserIffToken ==
    /\ isAuthenticated <=> user # null
    /\ isAuthenticated <=> token # null
    /\ \A state \in {login(AuthState, u, t) : u \in Users, t \in Tokens}
                    \cup {logout(AuthState)}
                    \cup {updateUser(AuthState, updates) : updates \in Updates} :
          /\ state.isAuthenticated <=> state.user # null
          /\ state.isAuthenticated <=> state.token # null

\* updateUser has just run on the session a login created over an earlier
\* one: user, token and isAuthenticated are all set
C27_Witness ==
    /\ authOp.op = "updateUser"
    /\ authOp.prior = "login"
    /\ authOp.hadUser
    /\ authOp.fields = UserFields
    /\ isAuthenticated
    /\ user # null
    /\ token # null

\* C21: the protected routes /dashboard and /users render their page only
\* while isAuthenticated is true; whenever it is false (at the start, after
\* logout, after a restart without a persisted session) they render a
\* redirect to /login; the other routes do not depend on the store.
C21_ProtectedRoutesRedirect ==
    /\ Routes("/dashboard", AuthState) =
          IF isAuthenticated THEN Page("DashboardPage") ELSE Navigate("/login")
    /\ Routes("/users", AuthState) =
          IF isAuthenticated THEN Page("UsersPage") ELSE Navigate("/login")
    /\ \A path \in Paths :
          Routes(path, AuthState) \in {Page("DashboardPage"), Page("UsersPage")}
              => isAuthenticated /\ path \in {"/dashboard", "/users"}

\* the page was loaded again after a 401 had removed the snapshot of a
\* logged-in session: the store is back at its initial state and /users
\* redirects
C21_Witness ==
    /\ authOp.op = "rehydrate"
    /\ authOp.prior = "onUnauthorized"
    /\ authOp.hadUser
    /\ ~isAuthenticated
    /\ Routes("/users", AuthState) = Navigate("/login")

(***************************************************************************)
(* Properties of the API client.                                           *)
(***************************************************************************)
\* C12: when a response has status 401 and onUnauthorized is configured,
\* request() calls it exactly once and still rejects with an APIError of
\* status 401; for any other status the callback is never called.
C12_OnUnauthorizedOnceOn401 ==
    /\ request.response = null => request.onUnauthorizedCalls = 0
    /\ request.response # null =>
          /\ request.onUnauthorizedCalls =
                IF request.response.status = 401 /\ apiConfig.onUnauthorized
                THEN 1 ELSE 0
          /\ request.response.status = 401 =>
                /\ request.pc \in {"errorBody", "rejected"}
                /\ request.pc = "rejected" =>
                      /\ request.outcome.name = "APIError"
                      /\ request.outcome.status = 401

\* a call has been rejected for a 401 after the configured callback ran
C12_Witness ==
    /\ request.pc = "rejected"
    /\ request.response # null
    /\ request.response.status = 401
    /\ apiConfig.onUnauthorized
    /\ request.onUnauthorizedCalls = 1
    /\ request.outcome.name = "APIError"

\* C13 as stated: a request carries an Authorization header if and only if
\* getToken is configured and returned a non-empty token when the request
\* was built, and the header is then 'Bearer <that token>'.
C13_HeaderIffToken ==
    request.pc # "idle" =>
        /\ request.headers.Authorization # null <=>
              (apiConfig.getToken /\ Truthy(request.tokenAtBuild))
        /\ request.headers.Authorization # null =>
              request.headers.Authorization = Bearer(request.tokenAtBuild)

\* C13 as amended: the Authorization header is 'Bearer <token>' with the
\* token getToken returned when the request was built if getToken is
\* configured and that token is non-empty; otherwise it is the Authorization
\* header of the caller's options.headers, if any.  For calls whose options
\* carry no Authorization header the claim holds as stated.
C13_HeaderFromTokenOrCaller ==
    request.pc # "idle" =>
        /\ request.headers.Authorization =
              IF apiConfig.getToken /\ Truthy(request.tokenAtBuild)
              THEN Bearer(request.tokenAtBuild)
              ELSE request.callerAuthorization
        /\ request.callerAuthorization = null =>
              (request.headers.Authorization # null <=>
                  (apiConfig.getToken /\ Truthy(request.tokenAtBuild)))
        /\ request.tokenAtBuild # null => apiConfig.getToken

\* a request built with a token is still in flight after the session's token
\* has changed
C13_Witness ==
    /\ request.pc = "fetch"
    /\ request.callerAuthorization = null
    /\ apiConfig.getToken
    /\ Truthy(request.tokenAtBuild)
    /\ Truthy(currentToken)
    /\ currentToken # request.tokenAtBuild
    /\ request.headers.Authorization = Bearer(request.tokenAtBuild)

\* C14: a call whose response is not ok rejects with one APIError carrying
\* the response's status, statusText and parsed body (null when the body
\* does not parse), never resolves, and makes no second fetch.
C14_ErrorResponseRejects ==
    (request.response # null /\ ~Ok(request.response.status)) =>
        /\ request.pc \in {"errorBody", "rejected"}
        /\ request.fetches = 1
        /\ request.pc = "rejected" =>
              request.outcome =
                  [name |-> "APIError",
                   status |-> request.response.status,
                   statusText |-> request.response.statusText,
                   data |-> IF request.response.body = Unparseable THEN null
                            ELSE request.response.body.text]

\* a call has been rejected for a 500 whose body is not JSON
C14_Witness ==
    /\ request.pc = "rejected"
    /\ request.response # null
    /\ request.response.status = 500
    /\ request.response.statusText = "text"
    /\ request.response.body = Unparseable
    /\ request.outcome.name = "APIError"
    /\ request.outcome.data = null

(***************************************************************************)
(* Properties of the notification queue.                                   *)
(***************************************************************************)
\* the duration that decides a queued notification's timeout
DurationOf(id) ==
    LET n == notifications[CHOOSE k \in 1..Len(notifications) : notifications[k].id = id]
    IN  IF "duration" \in DOMAIN n THEN n.duration ELSE defaultDuration

\* C15 as stated: every notification that is added is removed again without
\* any user action, that is, every notification in the queue has a timeout
\* that has yet to run.
C15_EveryQueuedHasTimer ==
    \A id \in NotificationIds : Queued(id) => id \in timers

\* C15 as amended: every notification added with a duration greater than 0
\* (its own duration, else the provider's defaultDuration) has a pending
\* timeout while it is in the queue and is eventually removed from the queue
\* without any user action; a notification whose duration is 0 gets no
\* timeout and stays until the user removes it.
C15_TimedNotificationsExpire ==
    /\ [](\A id \in NotificationIds :
            Queued(id) => (id \in timers <=> DurationOf(id) > 0))
    /\ \A id \in NotificationIds :
            (Queued(id) /\ DurationOf(id) > 0) ~> ~Queued(id)

\* a timeout has just removed a notification that was added without a
\* duration of its own, while an untimed notification stays in the queue
C15_Witness ==
    /\ notificationOp.op = "timerFires"
    /\ notificationOp.queued
    /\ ~Queued(notificationOp.id)
    /\ defaultDuration > 0
    /\ \E k \in 1..Len(notifications) :
          /\ "duration" \in DOMAIN notifications[k]
          /\ notifications[k].duration = 0

\* C16: the queue lists the active notifications in the order of their
\* addNotification calls: ADD appends, REMOVE and CLEAR_ALL never reorder
\* what remains, and a REMOVE for an id that is not in the queue changes
\* nothing.
C16_QueueKeepsInsertionOrder ==
    /\ \A i, j \in 1..Len(notifications) :
          i < j => notifications[i].id < notifications[j].id
    /\ \A id \in NotificationIds :
          LET after == notificationReducer(NotificationState,
                          [type |-> "REMOVE_NOTIFICATION", payload |-> id]).notifications
              Others == {k \in 1..Len(notifications) : notifications[k].id # id}
          IN  /\ ~Queued(id) => after = notifications
              /\ Len(after) = Cardinality(Others)
              /\ \A k \in 1..Len(after) :
                    after[k] = notifications[k + Cardinality({m \in 1..Len(notifications) :
                                    notifications[m].id = id /\ m <= k})]
    /\ notificationReducer(NotificationState, [type |-> "CLEAR_ALL"]).notifications = << >>
    /\ \A n \in NotificationInputs :
          LET payload == Spread(n, [id |-> notificationCount + 1])
              after == notificationReducer(NotificationState,
                          [type |-> "ADD_NOTIFICATION", payload |-> payload]).notifications
          IN  /\ Len(after) = Len(notifications) + 1
              /\ after[Len(after)] = payload
              /\ SubSeq(after, 1, Len(notifications)) = notifications

\* a timeout has just run for a notification the user had already removed,
\* and the queue still holds a notification
C16_Witness ==
    /\ notificationOp.op = "timerFires"
    /\ ~notificationOp.queued
    /\ Len(notifications) >= 1
    /\ notificationCount = MaxNotifications

C18_NoUpdateAfterUnmount ==
    /\ fetchOp.op = "unmount" =>
          \A r \in FetchIds : InFlight(hook, r) => hook.requests[r].aborted
    /\ (fetchOp.op = "settles" /\ fetchOp.unmounted) => ~fetchOp.changed

\* a request that was started by refetch() after the unmount has settled
\* with its result while isLoading was true
C18_Witness ==
    /\ fetchOp.op = "settles"
    /\ fetchOp.unmounted
    /\ ~hook.requests[fetchOp.request].aborted
    /\ hook.isLoading
    /\ \E r \in FetchIds : r # fetchOp.request /\ hook.requests[r].aborted

\* the most recently started request has not settled yet
LatestInFlight == hook.fetchCount > 0 /\ InFlight(hook, hook.fetchCount)

\* C24: while the component is mounted, isLoading is true exactly when the
\* most recently started request has not settled yet, for every value of
\* options.immediate.
C24_IsLoadingIffLatestInFlight ==
    phase = "mounted" => (hook.isLoading <=> LatestInFlight)

\* all the requests the hook has started have settled
AllSettled == hook.fetchCount > 0 /\ \A r \in FetchIds : ~InFlight(hook, r)

\* data and error are what the most recently started request ended with
ReflectsLatest ==
    \/ hook.data = [result |-> hook.fetchCount] /\ hook.error = null
    \/ /\ hook.data = null
       /\ hook.error \in {[name |-> n, request |-> hook.fetchCount] :
                            n \in {"Error", "TypeError", "SyntaxError"}}

\* a request that was superseded is aborted, and its settling leaves data
\* and error alone
SupersededIsIgnored ==
    /\ \A r \in FetchIds : (r < hook.fetchCount /\ InFlight(hook, r)) => hook.requests[r].aborted
    /\ (fetchOp.op = "settles" /\ fetchOp.request < hook.fetchCount) => ~fetchOp.stored

\* C25: a request that is superseded while in flight is aborted and never
\* changes data or error, and once all requests of a mounted component
\* have settled, data and error are the outcome of the request started
\* last.
C25_LatestOutcomeWhenSettled ==
    /\ SupersededIsIgnored
    /\ (phase = "mounted" /\ AllSettled) => ReflectsLatest

\* what C25 comes to in the code: the same for a mounted component whose
\* effects have not been cleaned up (mountedRef.current is still true);
\* after a cleanup, as StrictMode runs on mount, no outcome is stored.
LatestOutcomeWhileMountedRef ==
    /\ SupersededIsIgnored
    /\ (phase = "mounted" /\ hook.mountedRef /\ AllSettled) => ReflectsLatest
    /\ (phase = "mounted" /\ ~hook.mountedRef) => (hook.data = null /\ hook.error = null)

\* the first request was superseded by a second, the second has stored its
\* result, and the first has settled after it
C25_Witness ==
    /\ phase = "mounted"
    /\ hook.mountedRef
    /\ AllSettled
    /\ hook.fetchCount = 2
    /\ fetchOp.op = "settles"
    /\ fetchOp.request = 1
    /\ hook.requests[1].aborted
    /\ hook.data = [result |-> 2]

\* C26: under StrictMode, which runs the effects, cleans them up and runs
\* them again on mount, a request that succeeds while the component is
\* mounted stores its response in data and leaves isLoading false.
C26_StrictModeSuccessIsStored ==
    (/\ strict
     /\ phase = "mounted"
     /\ fetchOp.op = "settles"
     /\ hook.requests[fetchOp.request].stage = "succeeded") =>
        /\ hook.data = [result |-> fetchOp.request]
        /\ ~hook.isLoading

\* without StrictMode a request that succeeds while the component is
\* mounted does store its response and end the loading state
SuccessIsStoredWithoutStrictMode ==
    (/\ ~strict
     /\ phase = "mounted"
     /\ fetchOp.op = "settles"
     /\ hook.requests[fetchOp.request].stage = "succeeded") =>
        /\ hook.data = [result |-> fetchOp.request]
        /\ ~hook.isLoading

(***************************************************************************)
(* Properties of UserList.                                                 *)
(***************************************************************************)
\* C28: whenever UserList has pagination data, the current page is at least
\* 1 and at most pagination.totalPages, whatever Previous and Next clicks,
\* search-text changes and deletions came before.  Stated for data that is
\* the answer to the current page and search text, and that has a page.
C28_PageWithinTotalPages ==
    (/\ queryStatus = "success"
     /\ usersData # null
     /\ usersData.totalPages >= 1) =>
        /\ 1 <= page
        /\ page <= usersData.totalPages

\* the lower half alone: no click leads below page 1
PageAtLeastOne == page >= 1

RemoveValueWasLast ==
    \/ storageOp.op = "removeValue"
    \/ storageOp.op = "effect" /\ storageOp.cause = "removeValue"

\* C20: after removeValue() has been called and the effects it causes have
\* run, localStorage holds no entry under the key and the hook's value is
\* initialValue.
C20_RemoveValueRemovesEntry ==
    (RemoveValueWasLast /\ ~syncPending) =>
        /\ localStorageItem = null
        /\ storedValue = initialValue

(***************************************************************************)
(* Properties of ThemeProvider.                                            *)
(***************************************************************************)
\* C22: once setTheme or toggleTheme has been called and the provider has
\* rendered the calls made, localStorage's entry under storageKey is the
\* provider's theme and a provider created then starts with that theme; and
\* a toggleTheme call sets the theme to the opposite of the resolvedTheme
\* the provider had when it was called.
C22_StoredThemeIsTheme ==
    /\ (themeOp.called /\ themeUpdate = NoTheme) =>
          /\ themeStorage = theme
          /\ InitialTheme(themeStorage, defaultTheme) = theme
    /\ themeOp.op = "toggleTheme" =>
          /\ themeOp.resolved \in ResolvedThemes
          /\ (IF themeOp.rendered THEN theme ELSE themeUpdate)
                = (IF themeOp.resolved = "light" THEN "dark" ELSE "light")
          /\ ~themeOp.rendered => themeOp.resolved = resolvedTheme
          /\ themeOp.rendered => resolvedTheme # themeOp.resolved

\* toggleTheme was called while the theme was 'system' and the system
\* preferred dark, and the provider has rendered the light theme
C22_Witness ==
    /\ themeOp.op = "toggleTheme"
    /\ themeOp.rendered
    /\ themeOp.resolved = "dark"
    /\ systemTheme = "dark"
    /\ defaultTheme = "system"
    /\ theme = "light"
    /\ themeStorage = "light"

(***************************************************************************)
(* Properties of the default apiClient with the auth store.                *)
(***************************************************************************)
\* C23: once a 401 response has removed the 'auth-storage' snapshot, no
\* request built before the next login carries an Authorization header,
\* whatever updateUser and logout calls are made in between.
C23_NoHeaderAfterUnauthorized ==
    session.unauthorized => session.later = null

====
